---- MODULE Spec2Model ----
(***************************************************************************)
(* Model of the chat relay server (src/src/server.rs): the room registry,  *)
(* the rooms, and the per-connection session loop of handle_connection.    *)
(* Every await point of the loop is a position of the session (pc).        *)
(***************************************************************************)
EXTENDS Integers, Sequences, FiniteSets, TLC

(* ------------------------------ bounds -------------------------------- *)
MaxRooms == 2
MaxTokens == 2
\* capacity handed to broadcast::channel; the program uses 100, the model a
\* small value so that a lagging receiver is reachable
ChannelCapacity == 1
\* the same for the runs that look at the size of the buffer: a capacity that
\* is not a power of two, as the program's 100 is not
LagCapacity == 3

\* the connections the listener accepts
Conns == {1, 2}
\* chat ids a client may name: every id the registry can assign, and one more
\* that is never assigned
ChatIds == 1..(MaxRooms + 1)
TokenIds == 1..MaxTokens
Usernames == {"alice", "bob"}
Passwords == {"secret", "wrong"}
Texts == {"hi"}

(* Option<T>: None is the empty sequence, Some(x) the one-element sequence *)
None == <<>>
Some(x) == <<x>>
IsSome(o) == o # <<>>
Unwrap(o) == o[1]

(* --------------------------- message catalog -------------------------- *)
CreateChatRequest(pw) == [type |-> "CreateChatRequest", password |-> pw]
JoinChatRequest(id, u, pw) ==
    [type |-> "JoinChatRequest", chat_id |-> id, username |-> u, password |-> pw]
SendMessageRequest(id, t, m) ==
    [type |-> "SendMessageRequest", chat_id |-> id, token |-> t, message |-> m]
LeaveChatRequest(id, t) == [type |-> "LeaveChatRequest", chat_id |-> id, token |-> t]
CreateChatResponse(id) == [type |-> "CreateChatResponse", chat_id |-> id]
JoinChatResponse(t) == [type |-> "JoinChatResponse", token |-> t]
SendMessageResponse == [type |-> "SendMessageResponse"]
LeaveChatResponse == [type |-> "LeaveChatResponse"]
ChatMessage(u, m) == [username |-> u, message |-> m]
MessageBroadcast(cm) ==
    [type |-> "MessageBroadcast", username |-> cm.username, message |-> cm.message]
ErrorResponse(code) == [type |-> "ErrorResponse", code |-> code]

OptPasswords == {None} \cup {Some(p) : p \in Passwords}

\* the packets a client can put on the wire; the last one stands for any
\* message that is not one of the four requests
Requests ==
    {CreateChatRequest(pw) : pw \in {None, Some("secret")}}
    \cup {JoinChatRequest(id, u, pw) : id \in ChatIds, u \in Usernames, pw \in OptPasswords}
    \cup {SendMessageRequest(id, t, m) : id \in ChatIds, t \in TokenIds, m \in Texts}
    \cup {LeaveChatRequest(id, t) : id \in ChatIds, t \in TokenIds}
    \cup {SendMessageResponse}

(* -------------------------------- state ------------------------------- *)
VARIABLES
    chats,             \* ChatServer.chats: chat id -> ChatRoom
    minted,            \* number of session tokens minted so far (Uuid::new_v4)
    lock,              \* holder of the Mutex<ChatServer>, 0 when free
    pc,                \* position of each session task
    message_receiver,  \* handle_connection's local: None or Some([chat, next])
    current_chat_id,   \* handle_connection's local: None or Some(chat id)
    joined_as,         \* the username of the session's successful join
    own_token,         \* the token that join answered with
    pending,           \* the packet a session is writing to its socket
    capacity,          \* the capacity ChatRoom::new asks broadcast::channel for
    \* one connection seen at the level of bytes
    outbox,            \* the packets its client has handed to write_message
    stream,            \* the client's writes not yet at the server, in segments
    src,               \* bytes that read_message can read from the socket
    reading,           \* the read_message future of the current select!
    inbox,             \* the packets read_message has returned
    wire_pc,           \* "select" while the session loops, else "closed"
    ready              \* values sent to the session's broadcast receiver: how
                       \* many arrived so far, how many of them are waiting

server_vars == <<chats, minted, lock, pc, message_receiver, current_chat_id,
                 joined_as, own_token, pending, capacity>>
wire_vars == <<outbox, stream, src, reading, inbox, wire_pc, ready>>
vars == <<server_vars, wire_vars>>

(* ------------------------------ passwords ----------------------------- *)
\* the stored form is never the plaintext
hash_password(password) == [argon2 |-> password]
verify_password(password, stored) == stored = [argon2 |-> password]

(* ------------------------- broadcast channel -------------------------- *)
\* a channel is the sequence of values sent so far, of which the last Slots
\* are retained; a receiver is the number of values it has
\* consumed or skipped
RECURSIVE PowerOfTwoFrom(_, _)
PowerOfTwoFrom(p, n) == IF p >= n THEN p ELSE PowerOfTwoFrom(2 * p, n)
\* usize::next_power_of_two
next_power_of_two(n) == PowerOfTwoFrom(1, n)

\* broadcast::channel rounds the capacity it is asked for up to a power of
\* two: the number of values the channel retains
Slots == next_power_of_two(capacity)

Retained(chan) == IF Len(chan) > Slots THEN Len(chan) - Slots ELSE 0

\* the test for receivers the wrong way round
broadcast_send_inverted(chan, value, rx_cnt) ==
    IF rx_cnt = 0 THEN Append(chan, value) ELSE chan

\* Sender::send: the value is stored only when a receiver exists
broadcast_send(chan, value, rx_cnt) == IF rx_cnt > 0 THEN Append(chan, value) ELSE chan

\* Sender::subscribe: the new receiver starts at the tail
subscribe(chan) == Len(chan)

\* Receiver::recv once a value is available: Lagged moves the receiver to the
\* oldest retained value, otherwise the next value is returned
\* a lagged receiver sent to the end of the channel
recv_skips_all(chan, next) ==
    IF next < Retained(chan)
    THEN [lagged |-> TRUE, next |-> Len(chan)]
    ELSE [lagged |-> FALSE, next |-> next + 1, value |-> chan[next + 1]]

recv(chan, next) ==
    IF next < Retained(chan)
    THEN [lagged |-> TRUE, next |-> Retained(chan)]
    ELSE [lagged |-> FALSE, next |-> next + 1, value |-> chan[next + 1]]

(* -------------------------------- room -------------------------------- *)
ChatRoomNew(password) ==
    [tokens |-> <<>>, users |-> {}, password |-> password,
     messages |-> <<>>, broadcaster |-> <<>>]

\* tokens is a map token -> username, kept as a function on the tokens present
MapInsert(m, k, v) == [x \in (DOMAIN m) \cup {k} |-> IF x = k THEN v ELSE m[x]]
MapRemove(m, k) == [x \in (DOMAIN m) \ {k} |-> m[x]]

\* without the test of the member set
join_without_member_check(room, username, password, token) ==
    IF IsSome(room.password) /\ ~IsSome(password)
    THEN [ok |-> FALSE, code |-> "PasswordMissing"]
    ELSE IF IsSome(room.password) /\ ~verify_password(Unwrap(password), Unwrap(room.password))
    THEN [ok |-> FALSE, code |-> "WrongPassword"]
    ELSE [ok |-> TRUE,
          room |-> [room EXCEPT !.tokens = MapInsert(@, token, username),
                                !.users = @ \cup {username}],
          token |-> token,
          receiver |-> subscribe(room.broadcaster)]

\* a missing password handed to the verification as an empty one
join_missing_as_wrong(room, username, password, token) ==
    IF username \in room.users
    THEN [ok |-> FALSE, code |-> "UserAlreadyInRoom"]
    ELSE IF IsSome(room.password)
            /\ (~IsSome(password)
                  \/ ~verify_password(Unwrap(password), Unwrap(room.password)))
    THEN [ok |-> FALSE, code |-> "WrongPassword"]
    ELSE [ok |-> TRUE,
          room |-> [room EXCEPT !.tokens = MapInsert(@, token, username),
                                !.users = @ \cup {username}],
          token |-> token,
          receiver |-> subscribe(room.broadcaster)]

join(room, username, password, token) ==
    IF username \in room.users
    THEN [ok |-> FALSE, code |-> "UserAlreadyInRoom"]
    ELSE IF IsSome(room.password) /\ ~IsSome(password)
    THEN [ok |-> FALSE, code |-> "PasswordMissing"]
    ELSE IF IsSome(room.password) /\ ~verify_password(Unwrap(password), Unwrap(room.password))
    THEN [ok |-> FALSE, code |-> "WrongPassword"]
    ELSE [ok |-> TRUE,
          room |-> [room EXCEPT !.tokens = MapInsert(@, token, username),
                                !.users = @ \cup {username}],
          token |-> token,
          receiver |-> subscribe(room.broadcaster)]

\* the new entry put in front of the log
add_message_log_front(room, token, message, rx_cnt) ==
    IF token \notin DOMAIN room.tokens
    THEN [ok |-> FALSE, code |-> "Unauthorized"]
    ELSE [ok |-> TRUE,
          room |-> [room EXCEPT
                      !.messages = <<ChatMessage(room.tokens[token], message)>> \o @,
                      !.broadcaster = broadcast_send(@, ChatMessage(room.tokens[token], message), rx_cnt)]]

add_message(room, token, message, rx_cnt) ==
    IF token \notin DOMAIN room.tokens
    THEN [ok |-> FALSE, code |-> "Unauthorized"]
    ELSE [ok |-> TRUE,
          room |-> [room EXCEPT
                      !.messages = Append(@, ChatMessage(room.tokens[token], message)),
                      !.broadcaster = broadcast_send(@, ChatMessage(room.tokens[token], message), rx_cnt)]]

\* the token mapping removed, the username kept
leave_keeps_user(room, token) ==
    IF token \notin DOMAIN room.tokens
    THEN [ok |-> FALSE, code |-> "Unauthorized"]
    ELSE [ok |-> TRUE,
          room |-> [room EXCEPT !.tokens = MapRemove(@, token)]]

\* the username removed, the token mapping kept
leave_keeps_token(room, token) ==
    IF token \notin DOMAIN room.tokens
    THEN [ok |-> FALSE, code |-> "Unauthorized"]
    ELSE [ok |-> TRUE,
          room |-> [room EXCEPT !.users = @ \ {room.tokens[token]}]]

leave(room, token) ==
    IF token \notin DOMAIN room.tokens
    THEN [ok |-> FALSE, code |-> "Unauthorized"]
    ELSE [ok |-> TRUE,
          room |-> [room EXCEPT !.users = @ \ {room.tokens[token]},
                                !.tokens = MapRemove(@, token)]]

\* the connection seen at the level of bytes, before its client writes
WireInit ==
    /\ outbox = <<>>
    /\ stream = <<>>
    /\ src = <<>>
    /\ reading = [header_bytes |-> <<>>, message_bytes |-> None]
    /\ inbox = <<>>
    /\ wire_pc = "select"
    /\ ready = [arrived |-> 0, waiting |-> 0]

Init ==
    /\ chats = <<>>
    /\ minted = 0
    /\ lock = 0
    /\ pc = [c \in Conns |-> "listening"]
    /\ message_receiver = [c \in Conns |-> None]
    /\ current_chat_id = [c \in Conns |-> None]
    /\ joined_as = [c \in Conns |-> None]
    /\ own_token = [c \in Conns |-> None]
    /\ pending = [c \in Conns |-> None]
    /\ capacity = ChannelCapacity
    /\ WireInit

(* ------------------------------ registry ------------------------------ *)
\* Uuid::new_v4 never repeats an id: the next chat id, the next token
gen_chat_id == Cardinality(DOMAIN chats) + 1
new_token == minted + 1

\* a lookup that makes the room it does not find
get_mut_or_insert(id) ==
    IF id \in DOMAIN chats THEN Some(chats[id]) ELSE Some(ChatRoomNew(None))

\* HashMap::get_mut
get_mut(id) == IF id \in DOMAIN chats THEN Some(chats[id]) ELSE None

\* number of live receivers of a room's channel
rx_cnt(id) ==
    Cardinality({c \in Conns : /\ IsSome(message_receiver[c])
                               /\ Unwrap(message_receiver[c]).chat = id})

\* one channel shared by all rooms
channel_of_first_room(rx) == chats[1].broadcaster

\* the channel a receiver handle reads from: that of the room whose join
\* created it
channel_of(rx) == chats[rx.chat].broadcaster

\* the check left out
already_joined_never(c) == FALSE

\* the check that opens the JoinChatRequest branch
already_joined(c) == IsSome(current_chat_id[c])

(* --------------------------- model bounding --------------------------- *)
\* messages accepted over all rooms: one more than a channel retains
MaxMsgs == Slots + 1

RECURSIVE LogTotal(_)
LogTotal(ids) ==
    IF ids = {} THEN 0
    ELSE LET id == CHOOSE x \in ids : TRUE
         IN  Len(chats[id].messages) + LogTotal(ids \ {id})

\* a request is dispatched only while the ids, tokens and log entries it
\* could consume are within the bounds
WithinBounds(r) ==
    CASE r.type = "CreateChatRequest" -> Cardinality(DOMAIN chats) < MaxRooms
      [] r.type = "JoinChatRequest" -> minted < MaxTokens
      [] r.type = "SendMessageRequest" -> LogTotal(DOMAIN chats) < MaxMsgs
      [] OTHER -> TRUE

(* ------------------------------ listener ------------------------------ *)
\* ChatServer::run: accept a connection and spawn its session
Accept(c) ==
    /\ UNCHANGED <<capacity, wire_vars>>
    /\ pc[c] = "listening"
    /\ pc' = [pc EXCEPT ![c] = "select"]
    /\ UNCHANGED <<chats, minted, lock, message_receiver, current_chat_id,
                   joined_as, own_token, pending>>

(* --------------------------- session: reading ------------------------- *)
\* the read_message branch of select! completes with a packet and the session
\* goes on to state.lock().await; what the packet holds is looked at by the
\* match under the lock
ReadRequest(c) ==
    /\ UNCHANGED <<capacity, wire_vars>>
    /\ pc[c] = "select"
    /\ pc' = [pc EXCEPT ![c] = "lock"]
    /\ UNCHANGED <<chats, minted, lock, message_receiver, current_chat_id,
                   joined_as, own_token, pending>>

\* the session task ends: its locals, the receiver among them, are dropped
Terminate(c) ==
    /\ pc' = [pc EXCEPT ![c] = "closed"]
    /\ message_receiver' = [message_receiver EXCEPT ![c] = None]
    /\ current_chat_id' = [current_chat_id EXCEPT ![c] = None]
    /\ joined_as' = [joined_as EXCEPT ![c] = None]
    /\ own_token' = [own_token EXCEPT ![c] = None]
    /\ pending' = [pending EXCEPT ![c] = None]

\* a session that takes its member out of the room when it ends
ReadError_leaves_room(c) ==
    /\ UNCHANGED <<capacity, wire_vars>>
    /\ pc[c] = "select"
    /\ Terminate(c)
    /\ chats' = IF /\ IsSome(own_token[c]) /\ IsSome(current_chat_id[c])
                   /\ Unwrap(own_token[c]) \in DOMAIN chats[Unwrap(current_chat_id[c])].tokens
                THEN MapInsert(chats, Unwrap(current_chat_id[c]),
                               leave(chats[Unwrap(current_chat_id[c])],
                                     Unwrap(own_token[c])).room)
                ELSE chats
    /\ UNCHANGED <<minted, lock>>

\* read_message fails (EOF, read error, undecodable body): return Ok(())
ReadError(c) ==
    /\ UNCHANGED <<capacity, wire_vars>>
    /\ pc[c] = "select"
    /\ Terminate(c)
    /\ UNCHANGED <<chats, minted, lock>>

(* -------------------------- session: dispatch ------------------------- *)
\* the session takes the registry lock and runs the branch of its request up
\* to the await of the reply's write; the guard is still held there
Reply(c, msg) ==
    /\ pc' = [pc EXCEPT ![c] = "reply"]
    /\ pending' = [pending EXCEPT ![c] = Some(msg)]
    /\ lock' = c

HandleCreate(c, r, hash_ok) ==
    /\ r.type = "CreateChatRequest"
    /\ IF IsSome(r.password) /\ ~hash_ok
       THEN \* hash_password(pw)? returns the error from handle_connection
            /\ Terminate(c)
            /\ UNCHANGED <<chats, minted, lock>>
       ELSE /\ chats' = MapInsert(chats, gen_chat_id,
                          ChatRoomNew(IF IsSome(r.password)
                                      THEN Some(hash_password(Unwrap(r.password)))
                                      ELSE None))
            /\ Reply(c, CreateChatResponse(gen_chat_id))
            /\ UNCHANGED <<minted, message_receiver, current_chat_id,
                           joined_as, own_token>>

HandleJoin(c, r) ==
    /\ r.type = "JoinChatRequest"
    /\ IF already_joined(c)
       THEN /\ Reply(c, ErrorResponse("UserAlreadyInAnotherRoom"))
            /\ UNCHANGED <<chats, minted, message_receiver, current_chat_id,
                           joined_as, own_token>>
       ELSE IF ~IsSome(get_mut(r.chat_id))
       THEN /\ Reply(c, ErrorResponse("ChatNotFound"))
            /\ UNCHANGED <<chats, minted, message_receiver, current_chat_id,
                           joined_as, own_token>>
       ELSE LET res == join(Unwrap(get_mut(r.chat_id)), r.username, r.password, new_token)
            IN  IF res.ok
                THEN /\ chats' = MapInsert(chats, r.chat_id, res.room)
                     /\ minted' = minted + 1
                     /\ message_receiver' = [message_receiver EXCEPT ![c] =
                            Some([chat |-> r.chat_id, next |-> res.receiver])]
                     /\ current_chat_id' = [current_chat_id EXCEPT ![c] = Some(r.chat_id)]
                     /\ joined_as' = [joined_as EXCEPT ![c] = Some(r.username)]
                     /\ own_token' = [own_token EXCEPT ![c] = Some(res.token)]
                     /\ Reply(c, JoinChatResponse(res.token))
                ELSE /\ Reply(c, ErrorResponse(res.code))
                     /\ UNCHANGED <<chats, minted, message_receiver,
                                    current_chat_id, joined_as, own_token>>

\* a token honoured only on the connection joined to its room
HandleSend_own_session(c, r) ==
    /\ r.type = "SendMessageRequest"
    /\ IF ~IsSome(get_mut(r.chat_id))
       THEN /\ Reply(c, ErrorResponse("ChatNotFound"))
            /\ UNCHANGED chats
       ELSE LET res == add_message(Unwrap(get_mut(r.chat_id)), r.token, r.message,
                                   rx_cnt(r.chat_id))
            IN  IF res.ok /\ current_chat_id[c] = Some(r.chat_id)
                THEN /\ chats' = MapInsert(chats, r.chat_id, res.room)
                     /\ Reply(c, SendMessageResponse)
                ELSE /\ Reply(c, ErrorResponse("Unauthorized"))
                     /\ UNCHANGED chats
    /\ UNCHANGED <<minted, message_receiver, current_chat_id, joined_as, own_token>>

HandleSend(c, r) ==
    /\ r.type = "SendMessageRequest"
    /\ IF ~IsSome(get_mut(r.chat_id))
       THEN /\ Reply(c, ErrorResponse("ChatNotFound"))
            /\ UNCHANGED chats
       ELSE LET res == add_message(Unwrap(get_mut(r.chat_id)), r.token, r.message,
                                   rx_cnt(r.chat_id))
            IN  IF res.ok
                THEN /\ chats' = MapInsert(chats, r.chat_id, res.room)
                     /\ Reply(c, SendMessageResponse)
                ELSE /\ Reply(c, ErrorResponse(res.code))
                     /\ UNCHANGED chats
    /\ UNCHANGED <<minted, message_receiver, current_chat_id, joined_as, own_token>>

\* the receiver cleared before the result of leave is looked at
HandleLeave_clears_first(c, r) ==
    /\ r.type = "LeaveChatRequest"
    /\ IF ~IsSome(get_mut(r.chat_id))
       THEN /\ Reply(c, ErrorResponse("ChatNotFound"))
            /\ UNCHANGED <<chats, message_receiver>>
       ELSE LET res == leave(Unwrap(get_mut(r.chat_id)), r.token)
            IN  /\ message_receiver' = [message_receiver EXCEPT ![c] = None]
                /\ IF res.ok
                   THEN /\ chats' = MapInsert(chats, r.chat_id, res.room)
                        /\ Reply(c, LeaveChatResponse)
                   ELSE /\ Reply(c, ErrorResponse(res.code))
                        /\ UNCHANGED chats
    /\ UNCHANGED <<minted, current_chat_id, joined_as, own_token>>

HandleLeave(c, r) ==
    /\ r.type = "LeaveChatRequest"
    /\ IF ~IsSome(get_mut(r.chat_id))
       THEN /\ Reply(c, ErrorResponse("ChatNotFound"))
            /\ UNCHANGED <<chats, message_receiver>>
       ELSE LET res == leave(Unwrap(get_mut(r.chat_id)), r.token)
            IN  IF res.ok
                THEN /\ chats' = MapInsert(chats, r.chat_id, res.room)
                     /\ message_receiver' = [message_receiver EXCEPT ![c] = None]
                     /\ Reply(c, LeaveChatResponse)
                ELSE /\ Reply(c, ErrorResponse(res.code))
                     /\ UNCHANGED <<chats, message_receiver>>
    /\ UNCHANGED <<minted, current_chat_id, joined_as, own_token>>

\* any other message: return Err("Unexpected request"); the guard is dropped
HandleUnexpected(c, r) ==
    /\ r.type \notin {"CreateChatRequest", "JoinChatRequest", "SendMessageRequest",
                      "LeaveChatRequest"}
    /\ Terminate(c)
    /\ UNCHANGED <<chats, minted, lock>>

Dispatch(c, r) ==
    /\ UNCHANGED <<capacity, wire_vars>>
    /\ pc[c] = "lock"
    /\ lock = 0
    /\ WithinBounds(r)
    /\ \/ \E hash_ok \in BOOLEAN : HandleCreate(c, r, hash_ok)
       \/ HandleJoin(c, r)
       \/ HandleSend(c, r)
       \/ HandleLeave(c, r)
       \/ HandleUnexpected(c, r)

\* write_message of the reply completes; the guard is dropped at the end of the
\* branch and the loop goes back to select!
WriteReply(c) ==
    /\ UNCHANGED <<capacity, wire_vars>>
    /\ pc[c] = "reply"
    /\ pc' = [pc EXCEPT ![c] = "select"]
    /\ pending' = [pending EXCEPT ![c] = None]
    /\ lock' = 0
    /\ UNCHANGED <<chats, minted, message_receiver, current_chat_id, joined_as, own_token>>

\* write_message of the reply fails: send_response(..).await? returns the error
WriteReplyError(c) ==
    /\ UNCHANGED <<capacity, wire_vars>>
    /\ pc[c] = "reply"
    /\ Terminate(c)
    /\ lock' = 0
    /\ UNCHANGED <<chats, minted>>

(* ------------------------- session: forwarding ------------------------ *)
\* the receiver branch of select! completes
Recv(c) ==
    /\ UNCHANGED <<capacity, wire_vars>>
    /\ pc[c] = "select"
    /\ IsSome(message_receiver[c])
    /\ LET rx == Unwrap(message_receiver[c])
           chan == channel_of(rx)
       IN  /\ rx.next < Len(chan)
           /\ LET res == recv(chan, rx.next)
              IN  /\ message_receiver' = [message_receiver EXCEPT ![c] =
                         Some([rx EXCEPT !.next = res.next])]
                  /\ IF res.lagged
                     THEN UNCHANGED <<pc, pending>>      \* Err(_) => {}
                     ELSE /\ pc' = [pc EXCEPT ![c] = "forward"]
                          /\ pending' = [pending EXCEPT ![c] = Some(MessageBroadcast(res.value))]
    /\ UNCHANGED <<chats, minted, lock, current_chat_id, joined_as, own_token>>

WriteForward(c) ==
    /\ UNCHANGED <<capacity, wire_vars>>
    /\ pc[c] = "forward"
    /\ pc' = [pc EXCEPT ![c] = "select"]
    /\ pending' = [pending EXCEPT ![c] = None]
    /\ UNCHANGED <<chats, minted, lock, message_receiver, current_chat_id, joined_as, own_token>>

WriteForwardError(c) ==
    /\ UNCHANGED <<capacity, wire_vars>>
    /\ pc[c] = "forward"
    /\ Terminate(c)
    /\ UNCHANGED <<chats, minted, lock>>

(* --------------------------- specification ---------------------------- *)
Next ==
    \/ \E c \in Conns : Accept(c)
    \/ \E c \in Conns : ReadRequest(c)
    \/ \E c \in Conns : ReadError(c)
    \/ \E c \in Conns, r \in Requests : Dispatch(c, r)
    \/ \E c \in Conns : WriteReply(c)
    \/ \E c \in Conns : WriteReplyError(c)
    \/ \E c \in Conns : Recv(c)
    \/ \E c \in Conns : WriteForward(c)
    \/ \E c \in Conns : WriteForwardError(c)

Spec == Init /\ [][Next]_vars

(* ----------------------- joins past the token bound -------------------- *)
\* the join would succeed on session c, and so mint a token
Mints(c, r) ==
    /\ r.type = "JoinChatRequest"
    /\ ~already_joined(c)
    /\ IsSome(get_mut(r.chat_id))
    /\ join(Unwrap(get_mut(r.chat_id)), r.username, r.password, new_token).ok

\* the session dispatches a JoinChatRequest that fails, and so mints no
\* token, once every token of the model has been minted
JoinPastBound(c, r) ==
    /\ UNCHANGED <<capacity, wire_vars>>
    /\ pc[c] = "lock"
    /\ lock = 0
    /\ minted >= MaxTokens
    /\ ~Mints(c, r)
    /\ HandleJoin(c, r)

\* the server whose sessions go on receiving joins when no token is left
CloseNext ==
    \/ \E c \in Conns : Accept(c)
    \/ \E c \in Conns : ReadRequest(c)
    \/ \E c \in Conns : ReadError(c)
    \/ \E c \in Conns, r \in Requests : Dispatch(c, r)
    \/ \E c \in Conns, r \in Requests : JoinPastBound(c, r)
    \/ \E c \in Conns : WriteReply(c)
    \/ \E c \in Conns : WriteReplyError(c)
    \/ \E c \in Conns : Recv(c)
    \/ \E c \in Conns : WriteForward(c)
    \/ \E c \in Conns : WriteForwardError(c)

CloseSpec == Init /\ [][CloseNext]_vars

(* ------------------- the size of the channel's buffer ------------------ *)
\* the server with rooms whose channels are asked for LagCapacity, and
\* clients that all work in the first room and use no passwords
LagInit ==
    /\ chats = <<>>
    /\ minted = 0
    /\ lock = 0
    /\ pc = [c \in Conns |-> "listening"]
    /\ message_receiver = [c \in Conns |-> None]
    /\ current_chat_id = [c \in Conns |-> None]
    /\ joined_as = [c \in Conns |-> None]
    /\ own_token = [c \in Conns |-> None]
    /\ pending = [c \in Conns |-> None]
    /\ capacity = LagCapacity
    /\ WireInit

LagRequests ==
    {r \in Requests :
        /\ r.type \in {"JoinChatRequest", "SendMessageRequest", "LeaveChatRequest"}
              => r.chat_id = 1
        /\ r.type \in {"CreateChatRequest", "JoinChatRequest"} => r.password = None}

LagNext ==
    \/ \E c \in Conns : Accept(c)
    \/ \E c \in Conns : ReadRequest(c)
    \/ \E c \in Conns : ReadError(c)
    \/ \E c \in Conns, r \in LagRequests : Dispatch(c, r)
    \/ \E c \in Conns : WriteReply(c)
    \/ \E c \in Conns : WriteReplyError(c)
    \/ \E c \in Conns : Recv(c)
    \/ \E c \in Conns : WriteForward(c)
    \/ \E c \in Conns : WriteForwardError(c)

LagSpec == LagInit /\ [][LagNext]_vars


(* ============================ the wire ================================= *)
(* src/src/protocol.rs: a packet on the wire is a 5-byte header (version,  *)
(* big-endian body length) and a JSON body.  A byte is a number 0..255, a  *)
(* String of the program a tuple of characters.                            *)
MaxSent == 2
MaxReady == 1

\* the printable ASCII characters, in the order of their codes 32..126 (the
\* grave accent, code 96, by its name)
Printable ==
    <<" ", "!", "\"", "#", "$", "%", "&", "'", "(", ")", "*", "+", ",",
      "-", ".", "/", "0", "1", "2", "3", "4", "5", "6", "7", "8", "9", ":",
      ";", "<", "=", ">", "?", "@", "A", "B", "C", "D", "E", "F", "G", "H",
      "I", "J", "K", "L", "M", "N", "O", "P", "Q", "R", "S", "T", "U", "V",
      "W", "X", "Y", "Z", "[", "\\", "]", "^", "_", "grave", "a", "b", "c",
      "d", "e", "f", "g", "h", "i", "j", "k", "l", "m", "n", "o", "p", "q",
      "r", "s", "t", "u", "v", "w", "x", "y", "z", "{", "|", "}", "~">>
Characters == {Printable[i] : i \in 1..Len(Printable)}
AsciiOf == [ch \in Characters |-> 31 + CHOOSE i \in 1..Len(Printable) : Printable[i] = ch]
\* str.as_bytes() and its inverse
Bytes(str) == [i \in 1..Len(str) |-> AsciiOf[str[i]]]
IsText(bytes) == \A i \in 1..Len(bytes) : bytes[i] >= 32 /\ bytes[i] <= 126
Text(bytes) == [i \in 1..Len(bytes) |-> Printable[bytes[i] - 31]]

RECURSIVE Concat(_)
Concat(seqs) == IF seqs = <<>> THEN <<>> ELSE Head(seqs) \o Concat(Tail(seqs))

\* the values the fields of a packet are drawn from
Strs == {<<>>, <<"a", "\"">>, <<"\\">>}
OptStrs == {None} \cup {Some(str) : str \in Strs}
I32s == {0, -12, 2147483647}
UuidOne ==
    <<"0", "0", "0", "0", "0", "0", "0", "0", "0", "0", "0", "0", "0", "0", "0", "0",
      "0", "0", "0", "0", "0", "0", "0", "0", "0", "0", "0", "0", "0", "0", "0", "1">>
UuidHex ==
    <<"0", "1", "2", "3", "4", "5", "6", "7", "8", "9", "a", "b", "c", "d", "e", "f",
      "0", "1", "2", "3", "4", "5", "6", "7", "8", "9", "a", "b", "c", "d", "e", "f">>
Uuids == {UuidOne, UuidHex}
Versions == {1, 255}

\* enum Message, by struct: the type the model names the variant by, the
\* variant's name, which serde writes as the tag, and the struct's fields
Variants ==
    <<
      [type |-> "CreateChatRequest",
       tag |-> <<"C", "r", "e", "a", "t", "e", "C", "h", "a", "t", "R", "e", "q", "u", "e", "s", "t">>,
       fields |->
         <<[name |-> "password", key |-> <<"p", "a", "s", "s", "w", "o", "r", "d">>, kind |-> "opt"]>>],
      [type |-> "CreateChatResponse",
       tag |-> <<"C", "r", "e", "a", "t", "e", "C", "h", "a", "t", "R", "e", "s", "p", "o", "n", "s", "e">>,
       fields |->
         <<[name |-> "chat_id", key |-> <<"c", "h", "a", "t", "_", "i", "d">>, kind |-> "i32"]>>],
      [type |-> "JoinChatRequest",
       tag |-> <<"J", "o", "i", "n", "C", "h", "a", "t", "R", "e", "q", "u", "e", "s", "t">>,
       fields |->
         <<[name |-> "chat_id", key |-> <<"c", "h", "a", "t", "_", "i", "d">>, kind |-> "i32"],
           [name |-> "username", key |-> <<"u", "s", "e", "r", "n", "a", "m", "e">>, kind |-> "str"],
           [name |-> "password", key |-> <<"p", "a", "s", "s", "w", "o", "r", "d">>, kind |-> "opt"]>>],
      [type |-> "JoinChatResponse",
       tag |-> <<"J", "o", "i", "n", "C", "h", "a", "t", "R", "e", "s", "p", "o", "n", "s", "e">>,
       fields |->
         <<[name |-> "token", key |-> <<"t", "o", "k", "e", "n">>, kind |-> "uuid"]>>],
      [type |-> "SendMessageRequest",
       tag |-> <<"S", "e", "n", "d", "M", "e", "s", "s", "a", "g", "e", "R", "e", "q", "u", "e", "s", "t">>,
       fields |->
         <<[name |-> "token", key |-> <<"t", "o", "k", "e", "n">>, kind |-> "uuid"],
           [name |-> "chat_id", key |-> <<"c", "h", "a", "t", "_", "i", "d">>, kind |-> "i32"],
           [name |-> "message", key |-> <<"m", "e", "s", "s", "a", "g", "e">>, kind |-> "str"]>>],
      [type |-> "SendMessageResponse",
       tag |-> <<"S", "e", "n", "d", "M", "e", "s", "s", "a", "g", "e", "R", "e", "s", "p", "o", "n", "s", "e">>,
       fields |->
         <<>>],
      [type |-> "LeaveChatRequest",
       tag |-> <<"L", "e", "a", "v", "e", "C", "h", "a", "t", "R", "e", "q", "u", "e", "s", "t">>,
       fields |->
         <<[name |-> "token", key |-> <<"t", "o", "k", "e", "n">>, kind |-> "uuid"],
           [name |-> "chat_id", key |-> <<"c", "h", "a", "t", "_", "i", "d">>, kind |-> "i32"]>>],
      [type |-> "LeaveChatResponse",
       tag |-> <<"L", "e", "a", "v", "e", "C", "h", "a", "t", "R", "e", "s", "p", "o", "n">>,
       fields |->
         <<>>]
    >>

VariantOf(type) == Variants[CHOOSE i \in 1..Len(Variants) : Variants[i].type = type]

Packet(version, message) == [version |-> version, message |-> message]

Messages ==
    {CreateChatRequest(pw) : pw \in OptStrs}
    \cup {CreateChatResponse(id) : id \in I32s}
    \cup {JoinChatRequest(id, u, pw) : id \in I32s, u \in Strs, pw \in OptStrs}
    \cup {JoinChatResponse(t) : t \in Uuids}
    \cup {SendMessageRequest(id, t, m) : id \in I32s, t \in Uuids, m \in Strs}
    \cup {SendMessageResponse}
    \cup {LeaveChatRequest(id, t) : id \in I32s, t \in Uuids}
    \cup {LeaveChatResponse}
Packets == {Packet(v, m) : v \in Versions, m \in Messages}

(* ----------------------- serde_json::to_vec ---------------------------- *)
RECURSIVE Escaped(_)
\* the quotation mark and the reverse solidus are written with a backslash
Escaped(bytes) ==
    IF bytes = <<>> THEN <<>>
    ELSE (IF Head(bytes) \in {34, 92} THEN <<92, Head(bytes)>> ELSE <<Head(bytes)>>)
         \o Escaped(Tail(bytes))

Quoted(str) == <<34>> \o Escaped(Bytes(str)) \o <<34>>

RECURSIVE Digits(_)
Digits(n) == IF n < 10 THEN <<48 + n>> ELSE Digits(n \div 10) \o <<48 + (n % 10)>>
\* an integer in decimal
Itoa(n) == IF n < 0 THEN <<45>> \o Digits(0 - n) ELSE Digits(n)

\* Uuid is written hyphenated, in groups of 8-4-4-4-12 hexadecimal digits
Hyphenated(u) ==
    SubSeq(u, 1, 8) \o <<"-">> \o SubSeq(u, 9, 12) \o <<"-">> \o SubSeq(u, 13, 16)
        \o <<"-">> \o SubSeq(u, 17, 20) \o <<"-">> \o SubSeq(u, 21, 32)

SerializeValue(kind, value) ==
    CASE kind = "str" -> Quoted(value)
      [] kind = "opt" -> IF IsSome(value) THEN Quoted(Unwrap(value))
                         ELSE Bytes(<<"n", "u", "l", "l">>)
      [] kind = "i32" -> Itoa(value)
      [] kind = "uuid" -> Quoted(Hyphenated(value))

\* a struct is written as an object of its fields in the order of declaration
SerializeStruct(fields, message) ==
    <<123>>
    \o Concat([i \in 1..Len(fields) |->
                 (IF i > 1 THEN <<44>> ELSE <<>>)
                 \o Quoted(fields[i].key) \o <<58>>
                 \o SerializeValue(fields[i].kind, message[fields[i].name])])
    \o <<125>>

\* #[serde(tag = "type", content = "body")]
to_vec(message) ==
    LET variant == VariantOf(message.type)
    IN  <<123>> \o Quoted(<<"t", "y", "p", "e">>) \o <<58>> \o Quoted(variant.tag)
        \o <<44>> \o Quoted(<<"b", "o", "d", "y">>) \o <<58>>
        \o SerializeStruct(variant.fields, message)
        \o <<125>>

(* ---------------------- serde_json::from_slice ------------------------- *)
\* The parser reads the form to_vec writes, by descent over the bytes; it
\* refuses what serde_json would refuse and, beyond that, white space, fields
\* out of order and escapes other than those of Escaped, which no packet of
\* the model contains.  A parse is [ok, pos, val]: pos is the next byte.
Refused == [ok |-> FALSE]
Parsed(pos, val) == [ok |-> TRUE, pos |-> pos, val |-> val]

HasAt(bytes, pos, lit) ==
    /\ pos + Len(lit) - 1 <= Len(bytes)
    /\ SubSeq(bytes, pos, pos + Len(lit) - 1) = lit

RECURSIVE ParseChars(_, _, _)
\* the characters of a string up to its closing quotation mark
ParseChars(bytes, pos, acc) ==
    IF pos > Len(bytes) THEN Refused
    ELSE IF bytes[pos] = 34 THEN Parsed(pos + 1, acc)
    ELSE IF bytes[pos] = 92
         THEN IF pos + 1 <= Len(bytes) /\ bytes[pos + 1] \in {34, 92}
              THEN ParseChars(bytes, pos + 2, Append(acc, bytes[pos + 1]))
              ELSE Refused
    ELSE IF bytes[pos] < 32 \/ bytes[pos] > 126 THEN Refused
    ELSE ParseChars(bytes, pos + 1, Append(acc, bytes[pos]))

StringOf(chars) == IF chars.ok THEN Parsed(chars.pos, Text(chars.val)) ELSE Refused

ParseString(bytes, pos) ==
    IF pos <= Len(bytes) /\ bytes[pos] = 34
    THEN StringOf(ParseChars(bytes, pos + 1, <<>>))
    ELSE Refused

IsDigitAt(bytes, pos) == pos <= Len(bytes) /\ bytes[pos] >= 48 /\ bytes[pos] <= 57

RECURSIVE ParseDigits(_, _, _)
\* the digits from pos on as a number; refused once it leaves the range of
\* i32 (the magnitude of i32::MIN, which no packet of the model holds, is
\* taken to leave it too)
ParseDigits(bytes, pos, acc) ==
    IF ~IsDigitAt(bytes, pos) THEN Parsed(pos, acc)
    ELSE IF acc > 214748364 \/ (acc = 214748364 /\ bytes[pos] > 55) THEN Refused
    ELSE ParseDigits(bytes, pos + 1, 10 * acc + (bytes[pos] - 48))

I32Of(negative, digits) ==
    IF ~digits.ok THEN Refused
    ELSE Parsed(digits.pos, IF negative THEN 0 - digits.val ELSE digits.val)

\* the digits of an i32 start at first: there is no leading zero
ParseI32From(bytes, first, negative) ==
    IF ~IsDigitAt(bytes, first) THEN Refused
    ELSE IF bytes[first] = 48 /\ IsDigitAt(bytes, first + 1) THEN Refused
    ELSE I32Of(negative, ParseDigits(bytes, first, 0))

\* an i32: an optional minus sign, digits without a leading zero, in range
ParseI32(bytes, pos) ==
    IF pos <= Len(bytes) /\ bytes[pos] = 45
    THEN ParseI32From(bytes, pos + 1, TRUE)
    ELSE ParseI32From(bytes, pos, FALSE)

IsHex(ch) == ch \in {"0", "1", "2", "3", "4", "5", "6", "7", "8", "9",
                     "a", "b", "c", "d", "e", "f"}

UuidOf(str) ==
    IF ~str.ok THEN Refused
    ELSE IF Len(str.val) # 36 THEN Refused
    ELSE IF \E i \in 1..36 : IF i \in {9, 14, 19, 24} THEN str.val[i] # "-"
                             ELSE ~IsHex(str.val[i])
         THEN Refused
    ELSE Parsed(str.pos, SubSeq(str.val, 1, 8) \o SubSeq(str.val, 10, 13)
                         \o SubSeq(str.val, 15, 18) \o SubSeq(str.val, 20, 23)
                         \o SubSeq(str.val, 25, 36))

\* a Uuid: the hyphenated form
ParseUuid(bytes, pos) == UuidOf(ParseString(bytes, pos))

OptionOf(str) == IF str.ok THEN Parsed(str.pos, Some(str.val)) ELSE Refused

ParseOption(bytes, pos) ==
    IF HasAt(bytes, pos, Bytes(<<"n", "u", "l", "l">>)) THEN Parsed(pos + 4, None)
    ELSE OptionOf(ParseString(bytes, pos))

ParseValue(kind, bytes, pos) ==
    CASE kind = "str" -> ParseString(bytes, pos)
      [] kind = "opt" -> ParseOption(bytes, pos)
      [] kind = "i32" -> ParseI32(bytes, pos)
      [] kind = "uuid" -> ParseUuid(bytes, pos)

\* the key of field number i, after the comma that separates the fields
FieldKey(fields, i) ==
    (IF i > 1 THEN <<44>> ELSE <<>>) \o Quoted(fields[i].key) \o <<58>>

RECURSIVE ParseFields(_, _, _, _, _)
RECURSIVE FieldsAfter(_, _, _, _, _)
\* the fields of a struct from number i on, added to the record acc
ParseFields(bytes, pos, fields, i, acc) ==
    IF i > Len(fields) THEN Parsed(pos, acc)
    ELSE IF ~HasAt(bytes, pos, FieldKey(fields, i)) THEN Refused
    ELSE FieldsAfter(bytes, fields, i, acc,
                     ParseValue(fields[i].kind, bytes, pos + Len(FieldKey(fields, i))))

\* the fields that follow field number i, whose value has been read
FieldsAfter(bytes, fields, i, acc, value) ==
    IF ~value.ok THEN Refused
    ELSE ParseFields(bytes, value.pos, fields, i + 1, acc @@ (fields[i].name :> value.val))

\* the closing brace after the fields
StructOf(bytes, body) ==
    IF ~body.ok THEN Refused
    ELSE IF ~HasAt(bytes, body.pos, <<125>>) THEN Refused
    ELSE Parsed(body.pos + 1, body.val)

ParseStruct(bytes, pos, type, fields) ==
    IF ~HasAt(bytes, pos, <<123>>) THEN Refused
    ELSE StructOf(bytes, ParseFields(bytes, pos + 1, fields, 1, [type |-> type]))

TagKey == <<123>> \o Quoted(<<"t", "y", "p", "e">>) \o <<58>>
BodyKey == <<44>> \o Quoted(<<"b", "o", "d", "y">>) \o <<58>>

\* the closing brace of the message is the last byte of the slice
MessageOf(bytes, body) ==
    IF ~body.ok THEN Refused
    ELSE IF ~HasAt(bytes, body.pos, <<125>>) THEN Refused
    ELSE IF body.pos # Len(bytes) THEN Refused
    ELSE Parsed(body.pos + 1, body.val)

\* the body is read as the struct of the variant the tag names
MessageTagged(bytes, tag, known) ==
    IF known = {} THEN Refused
    ELSE IF ~HasAt(bytes, tag.pos, BodyKey) THEN Refused
    ELSE MessageOf(bytes, ParseStruct(bytes, tag.pos + Len(BodyKey),
                                      Variants[CHOOSE i \in known : TRUE].type,
                                      Variants[CHOOSE i \in known : TRUE].fields))

VariantsTagged(tag) == {i \in 1..Len(Variants) : tag.ok /\ Variants[i].tag = tag.val}

MessageAfter(bytes, tag) == MessageTagged(bytes, tag, VariantsTagged(tag))

\* the whole slice must be one Message
from_slice(bytes) ==
    IF ~HasAt(bytes, 1, TagKey) THEN Refused
    ELSE MessageAfter(bytes, ParseString(bytes, 1 + Len(TagKey)))

(* ------------------------------ framing -------------------------------- *)
\* a u32 is kept as its two 16-bit halves, so that every value of the type
\* has a place in the model
U32(n) == [hi |-> (n \div 65536) % 65536, lo |-> n % 65536]
\* u32::to_be_bytes, u32::from_be_bytes
to_be_bytes(n) == <<n.hi \div 256, n.hi % 256, n.lo \div 256, n.lo % 256>>
from_be_bytes(b) == [hi |-> b[1] * 256 + b[2], lo |-> b[3] * 256 + b[4]]

\* how many of the avail bytes a read_exact takes into a buffer of length
\* bytes that already holds have of them (no buffer of the model comes near
\* 65536 bytes)
Missing(length, have, avail) ==
    IF length.hi > 0 THEN avail
    ELSE IF length.lo - have < avail THEN length.lo - have ELSE avail
IsFull(length, have) == length.hi = 0 /\ have = length.lo

\* impl From<[u8; 5]> for Header
HeaderFrom(buf) == [version |-> buf[1], length |-> from_be_bytes(SubSeq(buf, 2, 5))]

\* the length written little-endian
write_message_le(packet) ==
    LET body == to_vec(packet.message)
        len == U32(Len(body))
        be == to_be_bytes(len)
    IN  <<<<packet.version, be[4], be[3], be[2], be[1]>>, body>>

\* write_message: what its two write_all calls write to dst
write_message(packet) ==
    LET body == to_vec(packet.message)
        len == U32(Len(body))
    IN  <<<<packet.version>> \o to_be_bytes(len), body>>

Take(bytes, n) == SubSeq(bytes, 1, n)
Drop(bytes, n) == SubSeq(bytes, n + 1, Len(bytes))
Min(a, b) == IF a < b THEN a ELSE b

NewRead == [header_bytes |-> <<>>, message_bytes |-> None]

\* one poll of the read_message future rd with the bytes avail in the socket:
\* each read_exact takes what there is, up to what its buffer still lacks,
\* and the future goes on to the next await when a buffer is full
\* serde_json::from_slice(&message_bytes)? and the Packet returned
Decoded(header, message, rest) ==
    IF message.ok
    THEN [poll |-> "Ok", src |-> rest, packet |-> Packet(header.version, message.val)]
    ELSE [poll |-> "Err", src |-> rest]

\* src.read_exact(&mut message_bytes), which takes n of the bytes rest
ReadBody(header_bytes, header, had, rest, n) ==
    IF ~IsFull(header.length, Len(had) + n)
    THEN [poll |-> "Pending", src |-> Drop(rest, n),
          rd |-> [header_bytes |-> header_bytes,
                  message_bytes |-> Some(had \o Take(rest, n))]]
    ELSE Decoded(header, from_slice(had \o Take(rest, n)), Drop(rest, n))

\* src.read_exact(&mut header_bytes), which has the bytes header_bytes
ReadHeader(header_bytes, had, rest) ==
    IF Len(header_bytes) < 5
    THEN [poll |-> "Pending", src |-> rest,
          rd |-> [header_bytes |-> header_bytes, message_bytes |-> None]]
    ELSE ReadBody(header_bytes, HeaderFrom(header_bytes), had, rest,
                  Missing(HeaderFrom(header_bytes).length, Len(had), Len(rest)))

read_message(rd, avail) ==
    ReadHeader(rd.header_bytes \o Take(avail, Min(Len(avail), 5 - Len(rd.header_bytes))),
               IF IsSome(rd.message_bytes) THEN Unwrap(rd.message_bytes) ELSE <<>>,
               Drop(avail, Min(Len(avail), 5 - Len(rd.header_bytes))))

(* ------------------------ one connection's bytes ----------------------- *)
\* a body no Message can be read from: a tag that is not a variant
Undecodable ==
    <<123>> \o Quoted(<<"t", "y", "p", "e">>) \o <<58>> \o Quoted(<<"N", "o">>) \o <<125>>
\* what the model keeps in outbox for such a packet
Junk == Packet(1, [type |-> "Undecodable"])

\* the packets of a client that sends more than one
LoopPackets ==
    {Packet(1, CreateChatRequest(None)),
     Packet(1, LeaveChatRequest(0, UuidOne))}

\* the client's first packet is any packet, the later ones are of LoopPackets
WithinSent(p) == Len(outbox) < MaxSent /\ (outbox # <<>> => p \in LoopPackets)

\* the network carries a write whole, or cut in two after cut bytes
Cuts == {0, 3}
Segments(write, cut) ==
    IF cut > 0 /\ cut < Len(write) THEN <<Take(write, cut), Drop(write, cut)>>
    ELSE <<write>>
Segmented(writes, cut) == Segments(writes[1], cut) \o Segments(writes[2], cut)

\* the client calls write_message
ClientWrite(p, cut) ==
    /\ WithinSent(p)
    /\ outbox' = Append(outbox, p)
    /\ stream' = stream \o Segmented(write_message(p), cut)
    /\ UNCHANGED <<src, reading, inbox, wire_pc, ready, server_vars>>

\* the client writes a well-framed packet with an undecodable body
ClientWriteJunk(cut) ==
    /\ Len(outbox) < MaxSent
    /\ outbox' = Append(outbox, Junk)
    /\ stream' = stream \o Segmented(<<<<1>> \o to_be_bytes(U32(Len(Undecodable))),
                                       Undecodable>>, cut)
    /\ UNCHANGED <<src, reading, inbox, wire_pc, ready, server_vars>>

\* the next segment arrives at the server's socket
Deliver ==
    /\ stream # <<>>
    /\ src' = src \o Head(stream)
    /\ stream' = Tail(stream)
    /\ UNCHANGED <<outbox, reading, inbox, wire_pc, ready, server_vars>>

\* select! polls read_message, which takes bytes and stays pending
ReadPending ==
    /\ wire_pc = "select" /\ src # <<>>
    /\ LET res == read_message(reading, src)
       IN  /\ res.poll = "Pending"
           /\ reading' = res.rd
           /\ src' = res.src
    /\ UNCHANGED <<outbox, stream, inbox, wire_pc, ready, server_vars>>

\* read_message returns a packet: the session dispatches it and goes back to
\* select! with a new read_message future
ReadReady ==
    /\ wire_pc = "select" /\ src # <<>>
    /\ LET res == read_message(reading, src)
       IN  /\ res.poll = "Ok"
           /\ inbox' = Append(inbox, res.packet)
           /\ reading' = NewRead
           /\ src' = res.src
    /\ UNCHANGED <<outbox, stream, wire_pc, ready, server_vars>>

\* read_message returns an error: Err(_) => return Ok(())
ReadFailed ==
    /\ wire_pc = "select" /\ src # <<>>
    /\ LET res == read_message(reading, src)
       IN  /\ res.poll = "Err"
           /\ src' = res.src
    /\ wire_pc' = "closed"
    /\ reading' = NewRead
    /\ UNCHANGED <<outbox, stream, inbox, ready, server_vars>>

\* a value arrives on the session's broadcast receiver
BroadcastReady ==
    /\ wire_pc = "select" /\ ready.arrived < MaxReady
    /\ ready' = [arrived |-> ready.arrived + 1, waiting |-> ready.waiting + 1]
    /\ UNCHANGED <<outbox, stream, src, reading, inbox, wire_pc, server_vars>>

\* select! completes on the receiver branch: the read_message future of this
\* iteration is dropped with what it has read, the broadcast is written, and
\* the next iteration makes a new read_message future
TakeBroadcast ==
    /\ wire_pc = "select" /\ ready.waiting > 0
    /\ ready' = [ready EXCEPT !.waiting = @ - 1]
    /\ reading' = NewRead
    /\ UNCHANGED <<outbox, stream, src, inbox, wire_pc, server_vars>>

\* write_message and read_message on one stream
CodecNext ==
    \/ \E p \in Packets, cut \in Cuts : ClientWrite(p, cut)
    \/ \E cut \in Cuts : ClientWriteJunk(cut)
    \/ Deliver
    \/ ReadPending
    \/ ReadReady
    \/ ReadFailed

CodecSpec == Init /\ [][CodecNext]_vars

\* the same inside the session's select! loop, with broadcasts arriving
LoopNext ==
    \/ \E p \in LoopPackets, cut \in Cuts : ClientWrite(p, cut)
    \/ \E cut \in Cuts : ClientWriteJunk(cut)
    \/ Deliver
    \/ ReadPending
    \/ ReadReady
    \/ ReadFailed
    \/ BroadcastReady
    \/ TakeBroadcast

LoopSpec == Init /\ [][LoopNext]_vars

(* ----------------------------- vocabulary ------------------------------ *)
RequestTypes == {"CreateChatRequest", "JoinChatRequest", "SendMessageRequest",
                 "LeaveChatRequest"}
ReplyTypes == {"CreateChatResponse", "JoinChatResponse", "SendMessageResponse",
               "LeaveChatResponse", "ErrorResponse"}

\* the step is a dispatch by session c; it is the dispatch of request r
Dispatching(c) == pc[c] = "lock" /\ pc'[c] # "lock"
Dispatches(c, r) == Dispatching(c) /\ Dispatch(c, r)

OfType(types) == {r \in Requests : r.type \in types}
JoinRequests == OfType({"JoinChatRequest"})
LeaveRequests == OfType({"LeaveChatRequest"})
TokenRequests == OfType({"SendMessageRequest", "LeaveChatRequest"})
RoomRequests == OfType({"JoinChatRequest", "SendMessageRequest", "LeaveChatRequest"})

\* the step completes the write of the packet the session holds in pending
Writes(c) == pc[c] \in {"reply", "forward"} /\ pc'[c] = "select"

\* the session is subscribed to the channel of room id
Subscribed(c, id) ==
    IsSome(message_receiver[c]) /\ Unwrap(message_receiver[c]).chat = id

(* ------------------------------- C1 ----------------------------------- *)
\* C1: the server never writes to a connection a MessageBroadcast that
\* carries the username this connection's session joined under.
C1_NoOwnEcho ==
    [][\A c \in Conns :
          (Writes(c) /\ Unwrap(pending[c]).type = "MessageBroadcast" /\ IsSome(joined_as[c]))
              => Unwrap(pending[c]).username # Unwrap(joined_as[c])]_vars

(* ------------------------------- C3 ----------------------------------- *)
\* C3: a successful LeaveChatRequest leaves the session with neither a
\* current chat id nor a subscription, so that a following join is not
\* rejected with UserAlreadyInAnotherRoom.
C3_LeaveReturnsToUnjoined ==
    [][\A c \in Conns : Dispatching(c) => \A r \in LeaveRequests :
          (pending'[c] = Some(LeaveChatResponse) /\ Dispatches(c, r))
              => /\ message_receiver'[c] = None
                 /\ current_chat_id'[c] = None
                 /\ ~already_joined(c)']_vars

(* ------------------------------- C10 ---------------------------------- *)
\* C10: every request of the four kinds that a session dispatches gets
\* exactly one direct reply: the dispatch leaves the session writing one
\* reply packet, and the session reads nothing more before that write is done.
C10_OneReplyPerRequest ==
    [][\A c \in Conns :
          /\ Dispatching(c) => \A r \in OfType(RequestTypes) :
                Dispatches(c, r)
                    => /\ pc'[c] = "reply"
                       /\ Unwrap(pending'[c]).type \in ReplyTypes
          /\ (pc[c] = "reply" /\ pc'[c] # "reply")
                => \/ (pc'[c] = "select" /\ Unwrap(pending[c]).type \in ReplyTypes)
                   \/ pc'[c] = "closed"]_vars

(* ------------------------------- C2 ----------------------------------- *)
ChanPositions == 1..MaxMsgs

\* value number p of room id's channel is still to be received by c
Owed(c, id, p) ==
    /\ id \in DOMAIN chats
    /\ Subscribed(c, id)
    /\ Unwrap(message_receiver[c]).next < p
    /\ p <= Len(chats[id].broadcaster)

\* c has received value number p and has finished writing it
Forwarded(c, id, p) ==
    /\ Subscribed(c, id)
    /\ Unwrap(message_receiver[c]).next >= p
    /\ ~(pc[c] = "forward" /\ Unwrap(message_receiver[c]).next = p)

\* value number p has left the channel's buffer
Overwritten(id, p) == id \in DOMAIN chats /\ p <= Retained(chats[id].broadcaster)

\* a successful send puts exactly one value on the room's channel, carrying
\* the sender's username and text; nothing else changes a channel
OnePublishPerSend ==
    \A id \in DOMAIN chats :
        LET room == chats[id]
            room2 == chats'[id]
        IN  IF Len(room2.messages) = Len(room.messages) + 1
            THEN /\ room2.messages[Len(room2.messages)].username \in room.users
                 /\ rx_cnt(id) > 0 =>
                       room2.broadcaster =
                           Append(room.broadcaster, room2.messages[Len(room2.messages)])
            ELSE room2.broadcaster = room.broadcaster

\* a receiver moves only by taking the next value, which the session then
\* writes as one MessageBroadcast, or by the jump of a lagged receiver
OneForwardPerValue ==
    \A c \in Conns :
        (IsSome(message_receiver[c]) /\ message_receiver'[c] # message_receiver[c]
           /\ IsSome(message_receiver'[c]))
        => LET rx == Unwrap(message_receiver[c])
               rx2 == Unwrap(message_receiver'[c])
               chan == chats[rx.chat].broadcaster
           IN  /\ rx2.chat = rx.chat
               /\ \/ /\ rx.next >= Retained(chan)
                     /\ rx2.next = rx.next + 1
                     /\ pc[c] = "select" /\ pc'[c] = "forward"
                     /\ pending'[c] = Some(MessageBroadcast(chan[rx.next + 1]))
                  \/ /\ rx.next < Retained(chan)
                     /\ rx2.next = Retained(chan)
                     /\ pending'[c] = pending[c]

\* value number p has been received by c and is being written
InFlight(c, id, p) ==
    /\ Subscribed(c, id)
    /\ pc[c] = "forward"
    /\ Unwrap(message_receiver[c]).next = p

\* value number p is due to c: published by another member, not yet written
Due(c, id, p) ==
    /\ Owed(c, id, p) \/ InFlight(c, id, p)
    /\ Some(chats[id].broadcaster[p].username) # joined_as[c]

\* what keeps a due broadcast due until it is forwarded, given the conditions
\* under which the claim lets go of it
StaysDue(c, id, p, released) ==
    (Due(c, id, p) /\ ~released) => (Due(c, id, p)' \/ Forwarded(c, id, p)')

Issued(t) == t <= minted
Valid(id, t) == id \in DOMAIN chats /\ t \in DOMAIN chats[id].tokens
IsError(c, code) == pending'[c] = Some(ErrorResponse(code))

\* C4: a successful leave removes its token from the room; a token that has
\* been issued and is not in a room's token map never gets into it again;
\* and a send or leave presenting such a token is answered Unauthorized and
\* changes no room.
C4_TokenInvalidation ==
    [][/\ \A c \in Conns : Dispatching(c) => \A r \in LeaveRequests :
             (pending'[c] = Some(LeaveChatResponse) /\ Dispatches(c, r))
                 => ~Valid(r.chat_id, r.token)'
       /\ \A id \in DOMAIN chats, t \in TokenIds :
             (Issued(t) /\ ~Valid(id, t)) => ~Valid(id, t)'
       /\ \A c \in Conns : Dispatching(c) => \A r \in TokenRequests :
             (r.chat_id \in DOMAIN chats /\ Issued(r.token)
                /\ ~Valid(r.chat_id, r.token) /\ Dispatches(c, r))
                 => IsError(c, "Unauthorized") /\ chats' = chats]_vars

\* every token issued so far has been given up by a leave, a room has a new
\* member since, and a request is being answered Unauthorized
C4_Witness ==
    \E c \in Conns :
        /\ pc[c] = "reply"
        /\ pending[c] = Some(ErrorResponse("Unauthorized"))
        /\ minted = 2
        /\ \E id \in DOMAIN chats : DOMAIN chats[id].tokens = {2}
        /\ \A id \in DOMAIN chats : 1 \notin DOMAIN chats[id].tokens

(* ------------------------------- C5 ----------------------------------- *)
\* no username is held by two tokens of a room, and the member set is the
\* set of usernames the tokens stand for
OneTokenPerUser ==
    \A id \in DOMAIN chats :
        LET tokens == chats[id].tokens
        IN  /\ \A t1, t2 \in DOMAIN tokens : tokens[t1] = tokens[t2] => t1 = t2
            /\ {tokens[t] : t \in DOMAIN tokens} = chats[id].users

JoinOfMember(c, r) ==
    /\ r.chat_id \in DOMAIN chats
    /\ r.username \in chats[r.chat_id].users
    /\ Dispatches(c, r)

\* C5 as stated: a join whose username is in the room's member set fails
\* with UserAlreadyInRoom.
C5_MemberJoinRejected ==
    [][\A c \in Conns : Dispatching(c) => \A r \in JoinRequests :
          JoinOfMember(c, r) => IsError(c, "UserAlreadyInRoom")]_vars

\* C5 amended: such a join fails, with UserAlreadyInRoom when the session
\* has no current chat id and with UserAlreadyInAnotherRoom otherwise; no
\* username is held by two tokens; a successful join answers with a token
\* that was never issued before.
C5_DoubleJoin ==
    /\ []OneTokenPerUser
    /\ [][\A c \in Conns : Dispatching(c) => \A r \in JoinRequests :
            /\ JoinOfMember(c, r)
                 => /\ chats' = chats
                    /\ IF IsSome(current_chat_id[c])
                       THEN IsError(c, "UserAlreadyInAnotherRoom")
                       ELSE IsError(c, "UserAlreadyInRoom")
            /\ (pc'[c] = "reply" /\ Unwrap(pending'[c]).type = "JoinChatResponse"
                  /\ Dispatches(c, r))
                 => /\ ~Issued(Unwrap(pending'[c]).token)
                    /\ Unwrap(pending'[c]).token <= minted'
                    /\ r.chat_id \in DOMAIN chats'
                    /\ Unwrap(pending'[c]).token \in DOMAIN chats'[r.chat_id].tokens
                    /\ chats'[r.chat_id].tokens[Unwrap(pending'[c]).token] = r.username]_vars

\* two sessions have joined the same room under the same username, the second
\* after the first one's membership ended, and the username holds a new token
C5_Witness ==
    \E c1, c2 \in Conns, id \in DOMAIN chats :
        /\ c1 # c2
        /\ current_chat_id[c1] = Some(id) /\ current_chat_id[c2] = Some(id)
        /\ IsSome(joined_as[c1]) /\ joined_as[c1] = joined_as[c2]
        /\ chats[id].tokens = MapInsert(<<>>, 2, Unwrap(joined_as[c1]))

(* ------------------------------- C6 ----------------------------------- *)
JoinAtRoom(c, r) ==
    /\ ~IsSome(current_chat_id[c])
    /\ r.chat_id \in DOMAIN chats
    /\ Dispatches(c, r)

PasswordGate(c, r) ==
    LET room == chats[r.chat_id]
    IN  /\ (IsSome(room.password) /\ ~IsSome(r.password))
            => IsError(c, "PasswordMissing")
        /\ (IsSome(room.password) /\ IsSome(r.password)
              /\ ~verify_password(Unwrap(r.password), Unwrap(room.password)))
            => IsError(c, "WrongPassword")
        /\ (~IsSome(room.password) /\ IsSome(r.password))
            => Dispatch(c, [r EXCEPT !.password = None])

\* C6 as stated: in a room with a password a join without one gets
\* PasswordMissing and one with a wrong one WrongPassword, whatever the
\* username and the membership; in an open room a password changes nothing.
C6_JoinAuthorization ==
    [][\A c \in Conns : Dispatching(c) => \A r \in JoinRequests : JoinAtRoom(c, r) => PasswordGate(c, r)]_vars

\* C6 amended: the same for a username that is not in the room's member set
\* (a member's username is rejected with UserAlreadyInRoom before the
\* password is looked at).
C6_JoinAuthorizationOfNewUser ==
    [][\A c \in Conns : Dispatching(c) => \A r \in JoinRequests :
          /\ (JoinAtRoom(c, r) /\ r.username \notin chats[r.chat_id].users)
                => PasswordGate(c, r)
          /\ (JoinAtRoom(c, r) /\ r.username \in chats[r.chat_id].users)
                => IsError(c, "UserAlreadyInRoom")]_vars

\* a join is being refused for its password in a room that has members
C6_Witness ==
    \E c \in Conns, id \in DOMAIN chats :
        /\ pc[c] = "reply"
        /\ pending[c] \in {Some(ErrorResponse("WrongPassword")),
                           Some(ErrorResponse("PasswordMissing"))}
        /\ chats[id].users # {}
        /\ IsSome(chats[id].password)

(* ------------------------------- C7 ----------------------------------- *)
\* C7: a join dispatched by a session that has a current chat id is answered
\* UserAlreadyInAnotherRoom and changes neither a room nor the session; a
\* session's subscription is to the room of its current chat id.
C7_OneRoomPerConnection ==
    /\ [](\A c \in Conns :
            IsSome(message_receiver[c])
               => current_chat_id[c] = Some(Unwrap(message_receiver[c]).chat))
    /\ [][\A c \in Conns : Dispatching(c) => \A r \in JoinRequests :
            (IsSome(current_chat_id[c]) /\ Dispatches(c, r))
               => /\ IsError(c, "UserAlreadyInAnotherRoom")
                  /\ chats' = chats /\ minted' = minted
                  /\ current_chat_id'[c] = current_chat_id[c]
                  /\ message_receiver'[c] = message_receiver[c]]_vars

\* a subscribed session is being refused a second join
C7_Witness ==
    \E c \in Conns :
        /\ pc[c] = "reply"
        /\ pending[c] = Some(ErrorResponse("UserAlreadyInAnotherRoom"))
        /\ IsSome(message_receiver[c])

(* ------------------------------- C8 ----------------------------------- *)
InLog(id, cm) == \E i \in 1..Len(chats[id].messages) : chats[id].messages[i] = cm

\* C8: a MessageBroadcast a session writes was sent in the room the session
\* joined: the session's subscription is to that room, and the broadcast is
\* an entry of that room's log.
C8_RoomIsolation ==
    \A c \in Conns :
        /\ IsSome(message_receiver[c])
              => current_chat_id[c] = Some(Unwrap(message_receiver[c]).chat)
        /\ pc[c] = "forward"
              => /\ IsSome(current_chat_id[c])
                 /\ InLog(Unwrap(current_chat_id[c]),
                          ChatMessage(Unwrap(pending[c]).username, Unwrap(pending[c]).message))

\* a session forwards a broadcast of its room while the other room has its
\* own subscriber and a different log
C8_Witness ==
    \E c1, c2 \in Conns :
        /\ pc[c1] = "forward"
        /\ IsSome(message_receiver[c2]) /\ IsSome(message_receiver[c1])
        /\ Unwrap(message_receiver[c2]).chat # Unwrap(message_receiver[c1]).chat
        /\ chats[Unwrap(message_receiver[c2]).chat].messages
              # chats[Unwrap(message_receiver[c1]).chat].messages

(* ------------------------------- C9 ----------------------------------- *)
NamesAbsentChat(c, r) == r.chat_id \notin DOMAIN chats /\ Dispatches(c, r)

\* C9 as stated: a join, send or leave naming a chat id that is not in the
\* registry is answered ChatNotFound in any session state, and the registry
\* is unchanged.
C9_ChatNotFound ==
    [][\A c \in Conns : Dispatching(c) => \A r \in RoomRequests :
          NamesAbsentChat(c, r) => IsError(c, "ChatNotFound") /\ chats' = chats]_vars

\* C9 amended: the same for a send or a leave in any session state and for a
\* join from a session that has no current chat id; a join from a session
\* that has one is answered UserAlreadyInAnotherRoom; the registry is
\* unchanged in every case.
C9_ChatNotFoundUnlessJoined ==
    [][\A c \in Conns : Dispatching(c) => \A r \in RoomRequests :
          NamesAbsentChat(c, r)
             => /\ chats' = chats
                /\ IF r.type = "JoinChatRequest" /\ IsSome(current_chat_id[c])
                   THEN IsError(c, "UserAlreadyInAnotherRoom")
                   ELSE IsError(c, "ChatNotFound")]_vars

\* a subscribed session is being answered ChatNotFound
C9_Witness ==
    \E c \in Conns :
        /\ pc[c] = "reply"
        /\ pending[c] = Some(ErrorResponse("ChatNotFound"))
        /\ IsSome(message_receiver[c])

(* ------------------------------- C11 ---------------------------------- *)
AppErrors == {"ChatNotFound", "Unauthorized", "WrongPassword", "PasswordMissing",
              "UserAlreadyInRoom", "UserAlreadyInAnotherRoom"}
IsAppError(p) ==
    IsSome(p) /\ Unwrap(p).type = "ErrorResponse" /\ Unwrap(p).code \in AppErrors

\* the session's join state and every room are as before the step
JoinStateKept(c) ==
    /\ message_receiver'[c] = message_receiver[c]
    /\ current_chat_id'[c] = current_chat_id[c]
    /\ chats' = chats

\* C11: a dispatch that ends in an application-level error puts the
\* ErrorResponse on the requesting connection only and changes no room, no
\* subscription and no session's join state; the write of the ErrorResponse,
\* once done, takes the session back to its select with the same join state,
\* where it reads the next request; the session is never closed by the error
\* itself.
C11_ErrorLeavesStateAlone ==
    /\ [][\A c \in Conns :
            /\ (Dispatching(c) /\ IsAppError(pending'[c]))
                  => /\ pc'[c] = "reply"
                     /\ JoinStateKept(c)
                     /\ minted' = minted
                     /\ \A d \in Conns \ {c} :
                            /\ pending'[d] = pending[d]
                            /\ pc'[d] = pc[d]
                            /\ message_receiver'[d] = message_receiver[d]
                            /\ current_chat_id'[d] = current_chat_id[d]
            /\ (IsAppError(pending[c]) /\ Writes(c))
                  => /\ pc[c] = "reply"
                     /\ JoinStateKept(c)]_vars
    /\ [](\A c \in Conns :
            /\ (pc[c] = "reply" /\ IsAppError(pending[c])) => ENABLED WriteReply(c)
            /\ pc[c] = "select" => ENABLED ReadRequest(c))

\* a join is being refused with UserAlreadyInRoom while the member that holds
\* the username is forwarding a broadcast
C11_Witness ==
    \E c, d \in Conns :
        /\ c # d
        /\ pc[c] = "reply"
        /\ pending[c] = Some(ErrorResponse("UserAlreadyInRoom"))
        /\ pc[d] = "forward"
        /\ IsSome(message_receiver[d])

(* ------------------------------- C12 ---------------------------------- *)
CreateRequests == OfType({"CreateChatRequest"})

\* C12: a CreateChatRequest whose password cannot be hashed is answered
\* ErrorResponse{InternalError} and inserts no room: a dispatched create
\* either answers CreateChatResponse or answers InternalError with the
\* registry unchanged.
C12_HashFailureSurfaced ==
    [][\A c \in Conns : Dispatching(c) => \A r \in CreateRequests :
          (Dispatches(c, r) /\ pending'[c] # Some(CreateChatResponse(gen_chat_id)))
              => /\ IsError(c, "InternalError")
                 /\ chats' = chats]_vars

(* ------------------------------- C13 ---------------------------------- *)
RECURSIVE IsSubseq(_, _)
\* s is an order-preserving subsequence of t
IsSubseq(s, t) ==
    IF s = <<>> THEN TRUE
    ELSE IF t = <<>> THEN FALSE
    ELSE IF Head(s) = Head(t) THEN IsSubseq(Tail(s), Tail(t))
    ELSE IsSubseq(s, Tail(t))

IsPrefix(s, t) == Len(s) <= Len(t) /\ SubSeq(t, 1, Len(s)) = s

DispatchSome(c) == \E r \in Requests : Dispatch(c, r)

\* C14: no session's progress waits for another session: wherever the other
\* sessions stand (also stalled in a write, or closed), the listener can
\* accept, a session that has read a request can dispatch it, and a session
\* that holds a reply can write it.
C14_SessionsIndependent ==
    \A c \in Conns :
        /\ pc[c] = "listening" => ENABLED Accept(c)
        /\ pc[c] = "lock" => ENABLED DispatchSome(c)
        /\ pc[c] = "reply" => ENABLED WriteReply(c)

(* ------------------------------- C15 ---------------------------------- *)
\* C15: a send or leave presenting a token of the named room's token map
\* succeeds on whatever connection it arrives, and acts under the username
\* the map records for the token: the log entry and the broadcast carry that
\* username, the leave removes that username and the token.
C15_TokenIsCapability ==
    [][\A c \in Conns : Dispatching(c) => \A r \in TokenRequests :
          (Valid(r.chat_id, r.token) /\ Dispatches(c, r))
             => LET room == chats[r.chat_id]
                    room2 == chats'[r.chat_id]
                    u == room.tokens[r.token]
                IN  IF r.type = "SendMessageRequest"
                    THEN /\ pending'[c] = Some(SendMessageResponse)
                         /\ room2.messages = Append(room.messages, ChatMessage(u, r.message))
                         /\ rx_cnt(r.chat_id) > 0
                               => room2.broadcaster
                                     = Append(room.broadcaster, ChatMessage(u, r.message))
                         /\ room2.tokens = room.tokens
                    ELSE /\ pending'[c] = Some(LeaveChatResponse)
                         /\ r.token \notin DOMAIN room2.tokens
                         /\ room2.users = room.users \ {u}]_vars

\* a connection that never joined is being answered SendMessageResponse, and
\* the message is on the channel of the room another connection subscribes to
C15_Witness ==
    \E c, d \in Conns :
        /\ pc[c] = "reply"
        /\ pending[c] = Some(SendMessageResponse)
        /\ current_chat_id[c] = None
        /\ IsSome(message_receiver[d])
        /\ channel_of(Unwrap(message_receiver[d])) # <<>>

(* ------------------------------- C17 ---------------------------------- *)
\* C17: no session holds the registry lock while it waits for a socket read
\* or a socket write to complete.
C17_NoLockAcrossIO ==
    \A c \in Conns : pc[c] \in {"select", "reply", "forward"} => lock # c

(* ------------------------------- C20 ---------------------------------- *)
\* the token that c's own join was answered with is in room id's token map
HoldsMembership(c, id) == IsSome(own_token[c]) /\ Valid(id, Unwrap(own_token[c]))

\* C20: in every state an open connection is subscribed to a room exactly
\* when the token of its own join is in that room's token map, whichever
\* connection the leaves came from.
C20_SubscribedWhileMember ==
    \A c \in Conns, id \in DOMAIN chats :
        pc[c] # "closed" => (Subscribed(c, id) <=> HoldsMembership(c, id))

(* ------------------------------- C19 ---------------------------------- *)
SendRequests == OfType({"SendMessageRequest"})

\* the step moves c's receiver: c's select! completed its receiver branch
Receives(c) ==
    /\ IsSome(message_receiver[c]) /\ IsSome(message_receiver'[c])
    /\ message_receiver'[c] # message_receiver[c]

\* the lag policy for a buffer of n values per subscriber: a receiver at most
\* n behind is handed the next value; one further behind loses exactly the
\* values older than the last n, is handed nothing, stays where it is in its
\* loop, and nobody is sent anything; no other receiver and no room changes
LagPolicy(n) ==
    \A c \in Conns : Receives(c) =>
        LET rx == Unwrap(message_receiver[c])
            rx2 == Unwrap(message_receiver'[c])
            chan == channel_of(rx)
        IN  /\ IF Len(chan) - rx.next > n
               THEN /\ rx2.next = Len(chan) - n
                    /\ pc' = pc
                    /\ pending' = pending
               ELSE /\ rx2.next = rx.next + 1
                    /\ pc'[c] = "forward"
                    /\ pending'[c] = Some(MessageBroadcast(chan[rx.next + 1]))
            /\ chats' = chats
            /\ \A d \in Conns \ {c} :
                  /\ message_receiver'[d] = message_receiver[d]
                  /\ pc'[d] = pc[d]
                  /\ pending'[d] = pending[d]

\* a dispatched send with a token of the room is answered SendMessageResponse
\* and published, however far behind the room's receivers are
SendNeverRefused ==
    \A c \in Conns : Dispatching(c) => \A r \in SendRequests :
        (Valid(r.chat_id, r.token) /\ Dispatches(c, r))
           => /\ pending'[c] = Some(SendMessageResponse)
              /\ rx_cnt(r.chat_id) > 0
                    => Len(chats'[r.chat_id].broadcaster)
                          = Len(chats[r.chat_id].broadcaster) + 1
              /\ message_receiver' = message_receiver

Wire(p) ==
    IF p = Junk THEN <<1>> \o to_be_bytes(U32(Len(Undecodable))) \o Undecodable
    ELSE Concat(write_message(p))

RECURSIVE WireLen(_)
WireLen(ps) == IF ps = <<>> THEN 0 ELSE Len(Wire(Head(ps))) + WireLen(Tail(ps))

\* the bytes the server has taken from its socket
Consumed == WireLen(outbox) - Len(Concat(stream)) - Len(src)

\* the bytes the read_message future in progress holds
Held ==
    Len(reading.header_bytes)
    + (IF IsSome(reading.message_bytes) THEN Len(Unwrap(reading.message_bytes)) ELSE 0)

\* C16: Every packet read is the packet written, with the same version and
\* an equal message, whatever the variant and the field values and however
\* the bytes arrive; the header that write_message writes has five bytes
\* and carries the version and the byte count of the body; reading the
\* packets takes exactly the bytes written for them, five plus the length
\* each, and a read in progress holds the rest of what was taken; a packet
\* written by write_message is never refused; once all the bytes have
\* arrived and been taken, every packet written has been read.
C16_RoundTrip ==
    /\ Len(inbox) <= Len(outbox)
    /\ \A i \in 1..Len(inbox) : inbox[i] = outbox[i]
    /\ \A i \in 1..Len(outbox) :
         outbox[i] # Junk =>
           LET writes == write_message(outbox[i])
           IN  /\ Len(writes[1]) = 5
               /\ HeaderFrom(writes[1]).version = outbox[i].version
               /\ HeaderFrom(writes[1]).length = U32(Len(writes[2]))
               /\ Len(Wire(outbox[i])) = 5 + Len(writes[2])
    /\ wire_pc = "select" => Consumed = WireLen(inbox) + Held
    /\ wire_pc = "closed" =>
         /\ Len(inbox) < Len(outbox)
         /\ outbox[Len(inbox) + 1] = Junk
         /\ Consumed = WireLen(SubSeq(outbox, 1, Len(inbox) + 1))
    /\ (wire_pc = "select" /\ stream = <<>> /\ src = <<>>) =>
         /\ inbox = outbox
         /\ reading = NewRead

\* a packet with an empty string and an absent optional field has been read
\* from bytes that arrived cut in pieces, after which another packet was read
C16_Witness ==
    /\ Len(inbox) = 2
    /\ inbox[1] = Packet(255, JoinChatRequest(2147483647, <<>>, None))
    /\ inbox[2] = Packet(1, LeaveChatRequest(0, UuidOne))

(* ---------------------------------------------------------------------- *)
(* C18: the session loop loses no request                                  *)
(* ---------------------------------------------------------------------- *)
\* C18: In the session loop, with broadcasts becoming ready at any moment,
\* the requests dispatched are the requests the client wrote, in order and
\* once each, and once all the bytes the client wrote have arrived and been
\* taken on an open connection, every request written has been dispatched.
C18_NoRequestLost ==
    /\ Len(inbox) <= Len(outbox)
    /\ \A i \in 1..Len(inbox) : inbox[i] = outbox[i]
    /\ (wire_pc = "select" /\ stream = <<>> /\ src = <<>>) => inbox = outbox

(* ------------------------------- C21 ---------------------------------- *)
\* d is a member through the token of its own join, which is not token t
OtherMember(d, t) ==
    /\ IsSome(own_token[d]) /\ own_token[d] # Some(t)
    /\ \E id \in DOMAIN chats : HoldsMembership(d, id)

\* the step is a successful leave of request r on session c
LeaveSucceeds(c, r) == pending'[c] = Some(LeaveChatResponse) /\ Dispatches(c, r)

\* what a successful leave does to the registry: the token and its username
\* go from the named room, whose password, log and channel stay as they
\* are, and every other room stays as it is
LeaveRoomEffect(r) ==
    /\ DOMAIN chats' = DOMAIN chats
    /\ \A id \in DOMAIN chats \ {r.chat_id} : chats'[id] = chats[id]
    /\ chats'[r.chat_id] =
          [chats[r.chat_id] EXCEPT
              !.tokens = MapRemove(@, r.token),
              !.users = @ \ {chats[r.chat_id].tokens[r.token]}]

\* no other session is handed a packet or moved by the step
NobodyNotified(c) ==
    \A d \in Conns \ {c} : pending'[d] = pending[d] /\ pc'[d] = pc[d]

\* C21: a successful leave removes exactly its token and that token's
\* username from the named room: the other tokens and usernames, the log,
\* the channel and every other room are unchanged, no packet is produced
\* for any other session, the subscription of every other member is
\* unchanged, and no step ever removes a room from the registry.
C21_LeaveRemovesOnlyItsMember ==
    [][/\ DOMAIN chats \subseteq DOMAIN chats'
       /\ \A c \in Conns : Dispatching(c) => \A r \in LeaveRequests :
             LeaveSucceeds(c, r)
                 => /\ LeaveRoomEffect(r)
                    /\ NobodyNotified(c)
                    /\ \A d \in Conns : OtherMember(d, r.token)
                          => message_receiver'[d] = message_receiver[d]]_vars

(* ------------------------------- C22 ---------------------------------- *)
\* the usernames that room id's token map maps to
Holders(id) == {chats[id].tokens[t] : t \in DOMAIN chats[id].tokens}

\* C22: in every state and for every room, the member set is the set of
\* usernames the token map maps to, no two tokens map to the same username,
\* and so the member set and the token map have the same size.
C22_MembersAreTokenHolders ==
    \A id \in DOMAIN chats :
        /\ chats[id].users = Holders(id)
        /\ \A t1, t2 \in DOMAIN chats[id].tokens :
              t1 # t2 => chats[id].tokens[t1] # chats[id].tokens[t2]
        /\ Cardinality(chats[id].users) = Cardinality(DOMAIN chats[id].tokens)

\* after joins, a send and a leave from two connections: a room whose log
\* has an entry of a member who has left since, and whose one member holds
\* the second token
C22_Witness ==
    \E id \in DOMAIN chats :
        /\ minted = 2
        /\ DOMAIN chats[id].tokens = {2}
        /\ chats[id].users = {chats[id].tokens[2]}
        /\ Len(chats[id].messages) > 0
        /\ chats[id].messages[1].username \notin chats[id].users

(* ------------------------------- C23 ---------------------------------- *)
\* token t is in room id's token map and the session whose join it was
\* issued to has ended (a session keeps own_token until it ends)
Orphan(id, t) == Valid(id, t) /\ \A c \in Conns : own_token[c] # Some(t)

\* the step ends session c
Closes(c) == pc[c] # "closed" /\ pc'[c] = "closed"

\* the step is the dispatch of join request r on session c
JoinDispatched(c, r) == Dispatching(c) /\ (Dispatch(c, r) \/ JoinPastBound(c, r))

\* request r names a room and a username that an orphan token holds there
JoinOfOrphan(c, r) ==
    /\ \E t \in TokenIds : Orphan(r.chat_id, t) /\ chats[r.chat_id].tokens[t] = r.username
    /\ JoinDispatched(c, r)

\* the end of a session changes no room; an orphan token is honoured for
\* send and leave on whatever connection presents it; it stays in its room
\* with its username until a leave that presents it succeeds
ClosedMemberStays ==
    /\ \A c \in Conns : Closes(c) => chats' = chats
    /\ \A c \in Conns : Dispatching(c) => \A r \in TokenRequests :
          (Orphan(r.chat_id, r.token) /\ Dispatches(c, r))
              => pending'[c] = Some(IF r.type = "SendMessageRequest"
                                    THEN SendMessageResponse ELSE LeaveChatResponse)
    /\ \A id \in DOMAIN chats, t \in TokenIds :
          Orphan(id, t)
              => IF Valid(id, t)'
                 THEN /\ chats'[id].tokens[t] = chats[id].tokens[t]
                      /\ chats[id].tokens[t] \in chats'[id].users
                 ELSE \E c \in Conns, r \in LeaveRequests :
                          r.chat_id = id /\ r.token = t /\ LeaveSucceeds(c, r)

\* C23 as stated: closing a joined connection changes no room, its token
\* stays valid for send and leave from any other connection, and every join
\* with its username in that room fails with UserAlreadyInRoom until a
\* leave with that token succeeds.
C23_ClosedMemberBlocksJoin ==
    [][/\ ClosedMemberStays
       /\ \A c \in Conns : Dispatching(c) => \A r \in JoinRequests :
             JoinOfOrphan(c, r) => IsError(c, "UserAlreadyInRoom") /\ chats' = chats]_vars

\* C23 amended: the same, where the join fails with UserAlreadyInRoom on a
\* session that has no current chat id and with UserAlreadyInAnotherRoom on
\* a session that has one.
C23_ClosedMemberBlocksJoinByState ==
    [][/\ ClosedMemberStays
       /\ \A c \in Conns : Dispatching(c) => \A r \in JoinRequests :
             JoinOfOrphan(c, r)
                 => /\ chats' = chats
                    /\ IF IsSome(current_chat_id[c])
                       THEN IsError(c, "UserAlreadyInAnotherRoom")
                       ELSE IsError(c, "UserAlreadyInRoom")]_vars

\* a connection joined, a message was sent under its username, and it was
\* closed; another connection, which has joined no room, asks to join that
\* room under that username and is being answered UserAlreadyInRoom
C23_Witness ==
    \E c1, c2 \in Conns, id \in DOMAIN chats, t \in TokenIds :
        /\ pc[c1] = "closed"
        /\ Orphan(id, t)
        /\ InLog(id, ChatMessage(chats[id].tokens[t], "hi"))
        /\ pc[c2] = "reply"
        /\ ~IsSome(current_chat_id[c2])
        /\ pending[c2] = Some(ErrorResponse("UserAlreadyInRoom"))

====
